---- MODULE Spec2Model ----
(***************************************************************************)
(* A model of the gap-event pipeline of Carzit/GroupHW_FS:                 *)
(*   data_filter.py  BenchmarkDataConstructor.filter_data                  *)
(*   data_test.py    preprocess_financial_data, strategy_consistent_growth,*)
(*                   backtest_strategy                                     *)
(* Tables are sequences of records, one record per row, the fields named   *)
(* after the columns.  Floating point columns are exact rationals with the *)
(* IEEE specials NaN, +inf and -inf; a NaT date is the same NaN.  Dates    *)
(* are day numbers and instrument codes (zero padded strings in the        *)
(* source, ordered as their numbers) are the numbers themselves.           *)
(***************************************************************************)
EXTENDS Integers, Sequences, FiniteSets, TLC

VARIABLES
    pc,                \* the stage of the run: "input", then the stage's name once it ran
    stk_folder,        \* the files of self.stk_folder: rawdata_key -> condition of the file
    pft_folder,        \* the files of self.pft_folder: rawdata_key -> condition of the file
    raw_data,          \* self.raw_data: rawdata_key -> the table read from the file
    columns,           \* the columns of processed_data["stk_data"] and ["pft_data"]
    log,               \* the records handed to self.logger
    raised,            \* the exception that reached the caller, "none" when there is none
    stk_data,          \* processed_data["stk_data"]: the trading / price table
    pft_data,          \* processed_data["pft_data"]: the disclosure table
    gap_events,        \* the table filter_data returns
    fin_data,          \* the disclosure table given to preprocess_financial_data
    growth_data,       \* the table preprocess_financial_data returns
    merged,            \* strategy_consistent_growth's `merged` just before the predicate
    selected,          \* the table strategy_consistent_growth returns
    hold_period,       \* backtest_strategy's hold_period
    positions,         \* backtest_strategy's selected_stocks after both price joins
    portfolio_return   \* the table backtest_strategy returns

vars == <<pc, stk_folder, pft_folder, raw_data, columns, log, raised,
          stk_data, pft_data, gap_events, fin_data, growth_data, merged,
          selected, hold_period, positions, portfolio_return>>

\* The state of the loader and of the logger.
run_vars == <<stk_folder, pft_folder, raw_data, columns, log, raised>>

----------------------------------------------------------------------------
(* Bounds of the model.                                                    *)

\* Dates of the bounded inputs are the days 1..MaxDate.
MaxDate == 3
\* A bounded trading table has at most MaxStk rows.
MaxStk == 3

\* A bounded disclosure history has at most MaxFin rows, announced on the
\* days 1..MaxFin.
MaxFin == 5

\* The instruments of the bounded inputs.
Stkcds == {1, 2}

\* A bounded growth table has at most MaxGrowth rows and a bounded event
\* table at most MaxEvents.
MaxGrowth == 2
MaxEvents == 2

\* backtest_strategy's default hold_period, in days.
HoldPeriodDefault == 90

\* strategy_consistent_growth: the threshold of its predicate, and the
\* number of quarters it looks back (range(1, 9)).
GrowthThreshold == 50
OffsetQuarters == 8

----------------------------------------------------------------------------
(* Floating point values: exact rationals n/d in lowest terms with d > 0,  *)
(* and NaN, +inf, -inf.                                                     *)

Abs(i) == IF i < 0 THEN -i ELSE i

RECURSIVE GCD(_, _)
GCD(a, b) == IF b = 0 THEN a ELSE GCD(b, a % b)

NaN  == [k |-> "nan",  n |-> 0, d |-> 1]
Inf  == [k |-> "inf",  n |-> 0, d |-> 1]
NInf == [k |-> "ninf", n |-> 0, d |-> 1]

\* The rational n/d (d # 0), normalised.
Rat(n, d) ==
    LET g == GCD(Abs(n), Abs(d))
        s == IF d < 0 THEN -1 ELSE 1
    IN  [k |-> "num", n |-> (s * n) \div g, d |-> (s * d) \div g]

Num(i) == Rat(i, 1)

\* pandas isna / dropna: NaN and NaT are missing, the infinities are not.
IsNull(x) == x.k = "nan"

\* -1, 0, 1: the sign of a value that is not NaN.
Sign(x) ==
    CASE x.k = "inf"  -> 1
      [] x.k = "ninf" -> -1
      [] OTHER        -> IF x.n > 0 THEN 1 ELSE IF x.n < 0 THEN -1 ELSE 0

Signed(s) == IF s > 0 THEN Inf ELSE IF s < 0 THEN NInf ELSE NaN

\* x / y in IEEE arithmetic: x/0 is +-inf, 0/0 is NaN.
FDiv(x, y) ==
    IF IsNull(x) \/ IsNull(y) THEN NaN
    ELSE IF x.k = "num" /\ y.k = "num"
         THEN IF y.n = 0 THEN Signed(Sign(x)) ELSE Rat(x.n * y.d, x.d * y.n)
    ELSE IF x.k = "num" THEN Num(0)
    ELSE IF y.k = "num" THEN Signed(Sign(x) * (IF y.n < 0 THEN -1 ELSE 1))
    ELSE NaN

FMul(x, y) ==
    IF IsNull(x) \/ IsNull(y) THEN NaN
    ELSE IF x.k = "num" /\ y.k = "num" THEN Rat(x.n * y.n, x.d * y.d)
    ELSE Signed(Sign(x) * Sign(y))

FAdd(x, y) ==
    IF IsNull(x) \/ IsNull(y) THEN NaN
    ELSE IF x.k = "num" /\ y.k = "num" THEN Rat(x.n * y.d + y.n * x.d, x.d * y.d)
    ELSE IF x.k = "num" THEN y
    ELSE IF y.k = "num" \/ x.k = y.k THEN x
    ELSE NaN

FNeg(x) ==
    CASE x.k = "nan"  -> NaN
      [] x.k = "inf"  -> NInf
      [] x.k = "ninf" -> Inf
      [] OTHER        -> Rat(-x.n, x.d)

FSub(x, y) == FAdd(x, FNeg(y))

\* x > y; every comparison with NaN is false.
FGt(x, y) ==
    IF IsNull(x) \/ IsNull(y) THEN FALSE
    ELSE IF x.k = "num" /\ y.k = "num" THEN x.n * y.d > y.n * x.d
    ELSE IF x.k = y.k THEN FALSE
    ELSE x.k = "inf" \/ y.k = "ninf"

----------------------------------------------------------------------------
(* Table helpers.  A sort key is a pair <<a, b>> compared lexicographically *)
(* (a single column c is the key <<c, 0>>); keys[i] is the key of row i.    *)

Range(s) == {s[i] : i \in DOMAIN s}

KeyLE(x, y) == x[1] < y[1] \/ (x[1] = y[1] /\ x[2] <= y[2])

\* The orders (sequences of positions) of the positions idxs that are
\* ascending in keys.
RECURSIVE SortedOrders(_, _)
SortedOrders(idxs, keys) ==
    IF idxs = {} THEN {<<>>}
    ELSE UNION {{<<i>> \o s : s \in SortedOrders(idxs \ {i}, keys)} :
                 i \in {m \in idxs : \A j \in idxs : KeyLE(keys[m], keys[j])}}

\* DataFrame.sort_values(col): the tables t can be sorted into.  The order
\* of rows with equal keys is not specified (the default sort is not stable).
SortValues(t, keys) ==
    {[i \in 1..Len(t) |-> t[o[i]]] : o \in SortedOrders(DOMAIN t, keys)}

\* DataFrame.sort_values([col1, col2]) and groupby's key order: a
\* lexicographic sort, which is stable (rows with equal keys keep their order).
RECURSIVE StableOrder(_, _)
StableOrder(idxs, keys) ==
    IF idxs = {} THEN <<>>
    ELSE LET i == CHOOSE m \in idxs : \A j \in idxs :
                      /\ KeyLE(keys[m], keys[j])
                      /\ (keys[m] = keys[j] => m <= j)
         IN  <<i>> \o StableOrder(idxs \ {i}, keys)

StableSort(t, keys) ==
    LET o == StableOrder(DOMAIN t, keys) IN [i \in 1..Len(t) |-> t[o[i]]]

\* GroupShift with the shift taken over the whole table, not per instrument.
GroupShiftUngrouped(t, i, k) == IF i - k >= 1 THEN i - k ELSE 0

\* groupby('Stkcd')[...].shift(k): the position in t of the row k places
\* before row i among the rows of row i's instrument, 0 when there is none.
GroupShift(t, i, k) ==
    LET same == {j \in 1..(i - 1) : t[j].Stkcd = t[i].Stkcd}
        before == {j \in same : Cardinality({m \in same : m >= j}) = k}
    IN  IF before = {} THEN 0 ELSE CHOOSE j \in before : TRUE

\* AsofForward with exact matches not allowed (allow_exact_matches=False).
AsofForwardStrict(right, rkeys, by, lk) ==
    LET ok == {j \in DOMAIN right : right[j].Stkcd = by /\ rkeys[j] > lk}
    IN  IF ok = {} THEN 0 ELSE CHOOSE j \in ok : \A m \in ok : j <= m

\* pd.merge_asof(left, right, by='Stkcd', direction=...): for a left row of
\* instrument by with key lk, the position of the matched row of `right`
\* (a table sorted by its key column, rkeys[j] the key of row j), 0 when no
\* row matches.  Exact matches are allowed.  Forward: the first row of the
\* instrument whose key is >= lk; backward: the last whose key is <= lk.
AsofForward(right, rkeys, by, lk) ==
    LET ok == {j \in DOMAIN right : right[j].Stkcd = by /\ rkeys[j] >= lk}
    IN  IF ok = {} THEN 0 ELSE CHOOSE j \in ok : \A m \in ok : j <= m

AsofBackward(right, rkeys, by, lk) ==
    LET ok == {j \in DOMAIN right : right[j].Stkcd = by /\ rkeys[j] <= lk}
    IN  IF ok = {} THEN 0 ELSE CHOOSE j \in ok : \A m \in ok : j >= m

\* The sort keys of the right table of a merge_asof(by='Stkcd'), dates[j]
\* being the date of row j.  The join reads the rows of one instrument at a
\* time, so only the order the sort leaves the rows of one instrument and
\* one date in can matter: rows of different instruments are kept apart here.
RightKeys(dates, right) == [j \in DOMAIN right |-> <<dates[j], right[j].Stkcd>>]

----------------------------------------------------------------------------
(* data_filter.py: the Gap Event Detector.                                 *)
(* A trading row is [Stkcd, Trddt, Hiprc, Loprc, Clsprc, na] and a          *)
(* disclosure row [Stkcd, Reptyp, Annodt, Profita, na]; na says that some   *)
(* other column of the row is missing (NaN), which is all dropna reads.     *)

\* stk_data.dropna() / pft_data.dropna()
dropna(t) == SelectSeq(t, LAMBDA r : ~r.na)

\* stk_data.sort_values(['Stkcd', 'Trddt'])
sort_stk(t) == StableSort(t, [i \in DOMAIN t |-> <<t[i].Stkcd, t[i].Trddt>>])

\* add_prev_Hiprc with the shift taken over the whole table, not per instrument.
add_prev_Hiprc_ungrouped(t) ==
    [i \in DOMAIN t |->
        [Stkcd |-> t[i].Stkcd, Trddt |-> t[i].Trddt, Hiprc |-> t[i].Hiprc,
         Loprc |-> t[i].Loprc,
         prev_Hiprc |-> IF i = 1 THEN NaN ELSE Num(t[i - 1].Hiprc)]]

\* stk_data['prev_Hiprc'] = stk_data.groupby('Stkcd')['Hiprc'].shift(1)
add_prev_Hiprc(t) ==
    [i \in DOMAIN t |->
        LET j == GroupShift(t, i, 1)
        IN  [Stkcd |-> t[i].Stkcd, Trddt |-> t[i].Trddt, Hiprc |-> t[i].Hiprc,
             Loprc |-> t[i].Loprc,
             prev_Hiprc |-> IF j = 0 THEN NaN ELSE Num(t[j].Hiprc)]]

\* pd.merge_asof(pft sorted by Annodt, stk sorted by Trddt, by='Stkcd',
\* direction='forward'): every disclosure, with the columns of its matched
\* trading row, NaT / NaN when it has none.
merge_forward(pft, stk) ==
    [i \in DOMAIN pft |->
        LET j == AsofForward(stk, [m \in DOMAIN stk |-> stk[m].Trddt],
                             pft[i].Stkcd, pft[i].Annodt)
        IN  [Stkcd |-> pft[i].Stkcd, Reptyp |-> pft[i].Reptyp,
             Annodt |-> pft[i].Annodt,
             Trddt |-> IF j = 0 THEN NaN ELSE Num(stk[j].Trddt),
             Loprc |-> IF j = 0 THEN NaN ELSE Num(stk[j].Loprc),
             prev_Hiprc |-> IF j = 0 THEN NaN ELSE stk[j].prev_Hiprc]]

\* merged[merged['Loprc'] > merged['prev_Hiprc']]
is_gap(r) == FGt(r.Loprc, r.prev_Hiprc)

\* gap_pct taken relative to the session's low instead of the prior high.
gap_pct_of_low(r) == FMul(FDiv(FSub(r.Loprc, r.prev_Hiprc), r.Loprc), Num(100))

\* result['gap_pct'] = (Loprc - prev_Hiprc) / prev_Hiprc * 100
gap_pct(r) == FMul(FDiv(FSub(r.Loprc, r.prev_Hiprc), r.prev_Hiprc), Num(100))

add_gap_pct(t) ==
    [i \in DOMAIN t |->
        [Stkcd |-> t[i].Stkcd, Reptyp |-> t[i].Reptyp, Annodt |-> t[i].Annodt,
         Trddt |-> t[i].Trddt, Loprc |-> t[i].Loprc,
         prev_Hiprc |-> t[i].prev_Hiprc, gap_pct |-> gap_pct(t[i])]]

\* filter_data: the event tables it can return for the tables stk and pft
\* (one for each order the two single-column sorts may leave equal dates in).
filter_data(stk, pft) ==
    LET stk1 == add_prev_Hiprc(sort_stk(dropna(stk)))
        pft1 == dropna(pft)
    IN  {add_gap_pct(SelectSeq(merge_forward(p, s), is_gap)) :
            p \in SortValues(pft1, [i \in DOMAIN pft1 |-> <<pft1[i].Annodt, 0>>]),
            s \in SortValues(stk1, RightKeys([i \in DOMAIN stk1 |-> stk1[i].Trddt], stk1))}

----------------------------------------------------------------------------
(* data_filter.py: the loader and the merger.  A file of a folder is keyed  *)
(* by its name without the extension (rawdata_key); temporary files and     *)
(* files that are not CSV are skipped by the loader and left out.           *)

\* The columns of a trading shard and of the disclosure file.
StkColumns == {"Stkcd", "Trddt", "Hiprc", "Loprc", "Clsprc"}
PftColumns == {"Stkcd", "Reptyp", "Annodt", "Profita"}

\* The columns filter_data reads by name.
RequiredStk == {"Stkcd", "Trddt", "Hiprc", "Loprc"}
RequiredPft == {"Stkcd", "Reptyp", "Annodt"}

\* The keys merge_all_data reads from self.raw_data.
ShardKeys ==
    <<"TRD_Dalyr0", "TRD_Dalyr1", "TRD_Dalyr2", "TRD_Dalyr3", "TRD_Dalyr4", "TRD_Dalyr5">>
PftKey == "IAR_Rept"

\* The conditions of a file: read in full, read without one column, or
\* failing in the try block (pd.read_csv or the Stkcd conversion raises).
StkConditions == {"ok", "no_Hiprc", "unreadable"}
PftConditions == {"ok", "no_Reptyp", "unreadable"}

\* The table pd.read_csv gives for a file: its columns and its rows.
Table(cols, rows) == [columns |-> cols, rows |-> rows]

\* A record handed to the logger by func about a file or a function.
LogRecord(level, func, about) == [level |-> level, func |-> func, about |-> about]

\* The files of a folder the loader reads, and those it fails on.
Loaded(folder) == {k \in DOMAIN folder : folder[k] # "unreadable"}
Failed(folder) == {k \in DOMAIN folder : folder[k] = "unreadable"}

\* load_csv_files: what self.raw_data holds after both loops; contents(k)
\* is the table in file k.
load_raw_data(stk, pft, contents) ==
    [k \in Loaded(stk) \cup Loaded(pft) |-> contents[k]]

\* load_csv_files: what it logs: an info for each file read and a warning
\* for each file that failed.
load_log(stk, pft) ==
    {LogRecord("info", "load_csv_files", k) : k \in Loaded(stk) \cup Loaded(pft)}
        \cup {LogRecord("warning", "load_csv_files", k) : k \in Failed(stk) \cup Failed(pft)}

\* pd.concat(tables, axis=0): the rows one table after the other over the
\* union of the columns; a row of a table that lacks one of the columns has
\* NaN there.
RECURSIVE concat_rows(_, _)
concat_rows(tables, cols) ==
    IF tables = <<>> THEN <<>>
    ELSE LET t == Head(tables)
         IN  [i \in DOMAIN t.rows |->
                 [t.rows[i] EXCEPT !.na = @ \/ t.columns # cols]]
                 \o concat_rows(Tail(tables), cols)

concat(tables) ==
    LET cols == UNION {tables[i].columns : i \in DOMAIN tables}
    IN  Table(cols, concat_rows(tables, cols))

\* utils.log_exceptions that swallows the exception after logging it.
log_exceptions_swallowed(func, e, lg) ==
    [log |-> lg \cup {LogRecord("error", func, func)}, raised |-> "none"]

\* utils.log_exceptions_inclass: the exception e of func is logged as an
\* error through self.logger and raised again.
log_exceptions_inclass(func, e, lg) ==
    [log |-> lg \cup {LogRecord("error", func, func)}, raised |-> e]

----------------------------------------------------------------------------
(* Bounded inputs of the Gap Event Detector.  Prices are positive (they are *)
(* prices of traded shares) and a trading table holds one row for an        *)
(* instrument and a date.                                                   *)

Dates == 1..MaxDate

\* The <<Hiprc, Loprc>> of a session, in ticks; the low is at most the high.
PriceBars == {<<1, 1>>, <<2, 1>>, <<2, 2>>}

StkRow(c, d, hi, lo, cl, na) ==
    [Stkcd |-> c, Trddt |-> d, Hiprc |-> hi, Loprc |-> lo, Clsprc |-> cl, na |-> na]

PftRow(c, d, profit, na) ==
    [Stkcd |-> c, Reptyp |-> 1, Annodt |-> d, Profita |-> profit, na |-> na]

\* What a trading table may hold for an instrument and a date: a session
\* with one of the bars, or a row with a missing field.
StkOptions(c, d) ==
    {StkRow(c, d, b[1], b[2], b[2], FALSE) : b \in PriceBars}
        \cup {StkRow(c, d, 1, 1, 1, TRUE)}

\* The rows of a set of <<key, row>> pairs (no key twice), greatest key first.
RECURSIVE Descending(_)
Descending(S) ==
    IF S = {} THEN <<>>
    ELSE LET x == CHOOSE y \in S : \A z \in S : KeyLE(z[1], y[1])
         IN  <<x[2]>> \o Descending(S \ {x})

\* The trading rows of the set rows (one per instrument and date), latest
\* date first: the tables are not given sorted.
Unsorted(rows) == Descending({<<<<r.Trddt, r.Stkcd>>, r>> : r \in rows})

\* The sets of rows that hold one row for every <<instrument, date>> of C.
RECURSIVE StkRowSets(_)
StkRowSets(C) ==
    IF C = {} THEN {{}}
    ELSE LET x == CHOOSE y \in C : TRUE
         IN  {rest \cup {r} : rest \in StkRowSets(C \ {x}), r \in StkOptions(x[1], x[2])}

\* The trading tables of at most n rows.
StkTables(n) ==
    LET cells == Stkcds \X Dates
    IN  UNION {{Unsorted(rows) : rows \in StkRowSets(C)} :
               C \in {D \in SUBSET cells : Cardinality(D) <= n}}

PftTables ==
    {<<>>} \cup {<<PftRow(c, d, 1, na)>> : c \in Stkcds, d \in Dates, na \in BOOLEAN}

\* The spec's scenario: the session of day 1 has high 10.0, the session of
\* day 2, the announcement's day, low 10.5 (a tick is 0.1).
ScenarioStk == <<StkRow(1, 2, 110, 105, 108, FALSE), StkRow(1, 1, 100, 98, 99, FALSE)>>
ScenarioPft == <<PftRow(1, 2, 150, FALSE)>>

Empty == <<>>

\* The stage's tables are given with all their columns; nothing was loaded
\* from a folder and nothing logged.
TablesGiven ==
    /\ stk_folder = Empty
    /\ pft_folder = Empty
    /\ raw_data = Empty
    /\ columns = [stk_data |-> StkColumns, pft_data |-> PftColumns]
    /\ log = {}
    /\ raised = "none"

InitFilter ==
    /\ pc = "input"
    /\ \E tables \in {StkTables(MaxStk)} : stk_data \in tables \cup {ScenarioStk}
    /\ pft_data \in PftTables \cup {ScenarioPft}
    /\ gap_events = Empty
    /\ fin_data = Empty
    /\ growth_data = Empty
    /\ merged = Empty
    /\ selected = Empty
    /\ hold_period = HoldPeriodDefault
    /\ positions = Empty
    /\ portfolio_return = Empty
    /\ TablesGiven

\* result = data_constructor.filter_data()
FilterData ==
    /\ pc = "input"
    /\ RequiredStk \subseteq columns.stk_data
    /\ RequiredPft \subseteq columns.pft_data
    /\ gap_events' \in filter_data(stk_data, pft_data)
    /\ pc' = "filter_data"
    /\ UNCHANGED run_vars
    /\ UNCHANGED <<stk_data, pft_data, fin_data, growth_data, merged, selected,
                   hold_period, positions, portfolio_return>>

NextFilter == FilterData

SpecFilter == InitFilter /\ [][NextFilter]_vars

----------------------------------------------------------------------------
(* data_filter.py: the run of __main__, from the folders to the events.    *)
(* The six shards hold the sessions of the two instruments on the days 1,   *)
(* 2 and 3, one session a shard, each opening above the high of the day     *)
(* before; the disclosure file holds a disclosure of each instrument.       *)

ShardIndex(k) == CHOOSE i \in DOMAIN ShardKeys : ShardKeys[i] = k

\* The session in the i-th shard.
ShardRow(i) ==
    LET d == 1 + ((i - 1) \div 2)
    IN  StkRow(1 + ((i - 1) % 2), d, 2 * d, 2 * d - 1, 2 * d, FALSE)

\* The table in the file k of a folder, the file being in condition cond.
FileTable(k, cond) ==
    IF k = PftKey
    THEN Table(IF cond = "no_Reptyp" THEN PftColumns \ {"Reptyp"} ELSE PftColumns,
               <<PftRow(1, 2, 1, FALSE), PftRow(2, 3, 1, FALSE)>>)
    ELSE Table(IF cond = "no_Hiprc" THEN StkColumns \ {"Hiprc"} ELSE StkColumns,
               <<ShardRow(ShardIndex(k))>>)

\* The folders: any of the shards and the disclosure file, each in any
\* condition.
StkFolders == UNION {[S -> StkConditions] : S \in SUBSET Range(ShardKeys)}
PftFolders == UNION {[S -> PftConditions] : S \in SUBSET {PftKey}}

\* data_constructor = BenchmarkDataConstructor(); set_logger(...)
InitRun ==
    /\ pc = "start"
    /\ stk_folder \in StkFolders
    /\ pft_folder \in PftFolders
    /\ raw_data = Empty
    /\ columns = [stk_data |-> {}, pft_data |-> {}]
    /\ log = {}
    /\ raised = "none"
    /\ stk_data = Empty
    /\ pft_data = Empty
    /\ gap_events = Empty
    /\ fin_data = Empty
    /\ growth_data = Empty
    /\ merged = Empty
    /\ selected = Empty
    /\ hold_period = HoldPeriodDefault
    /\ positions = Empty
    /\ portfolio_return = Empty

\* data_constructor.load_csv_files(): every file is read in a try block of
\* its own, so a failing file is logged and the loops go on.
LoadCsvFiles ==
    /\ pc = "start"
    /\ raw_data' = load_raw_data(stk_folder, pft_folder,
                       [k \in DOMAIN stk_folder \cup DOMAIN pft_folder |->
                           FileTable(k, IF k = PftKey THEN pft_folder[k] ELSE stk_folder[k])])
    /\ log' = log \cup load_log(stk_folder, pft_folder)
    /\ pc' = "load_csv_files"
    /\ UNCHANGED <<stk_folder, pft_folder, columns, raised, stk_data, pft_data,
                   gap_events, fin_data, growth_data, merged, selected, hold_period,
                   positions, portfolio_return>>

\* merge_all_data: merged_df, the concatenation of the six shards by key.
merged_df(raw) == concat([i \in DOMAIN ShardKeys |-> raw[ShardKeys[i]]])

\* data_constructor.merge_all_data() with every key it reads in raw_data.
MergeAllData ==
    /\ pc = "load_csv_files"
    /\ Range(ShardKeys) \cup {PftKey} \subseteq DOMAIN raw_data
    /\ stk_data' = merged_df(raw_data).rows
    /\ pft_data' = raw_data[PftKey].rows
    /\ columns' = [stk_data |-> merged_df(raw_data).columns,
                   pft_data |-> raw_data[PftKey].columns]
    /\ pc' = "input"
    /\ UNCHANGED <<stk_folder, pft_folder, raw_data, log, raised, gap_events,
                   fin_data, growth_data, merged, selected, hold_period,
                   positions, portfolio_return>>

\* data_constructor.merge_all_data() with a key missing from raw_data: the
\* KeyError of self.raw_data[key] is logged and raised again, and nothing
\* catches it in __main__.  A missing disclosure key fails after
\* processed_data["stk_data"] was assigned.
MergeAllDataRaises ==
    /\ pc = "load_csv_files"
    /\ ~(Range(ShardKeys) \cup {PftKey} \subseteq DOMAIN raw_data)
    /\ IF Range(ShardKeys) \subseteq DOMAIN raw_data
       THEN /\ stk_data' = merged_df(raw_data).rows
            /\ columns' = [columns EXCEPT !.stk_data = merged_df(raw_data).columns]
       ELSE UNCHANGED <<stk_data, columns>>
    /\ LET out == log_exceptions_inclass("merge_all_data", "KeyError", log)
       IN  log' = out.log /\ raised' = out.raised
              /\ pc' = IF out.raised = "none" THEN "input" ELSE "aborted"
    /\ UNCHANGED <<stk_folder, pft_folder, raw_data, pft_data, gap_events,
                   fin_data, growth_data, merged, selected, hold_period,
                   positions, portfolio_return>>

\* result = data_constructor.filter_data() with a column it reads by name
\* missing: the KeyError is logged and raised again, no table is returned.
FilterDataRaises ==
    /\ pc = "input"
    /\ ~(RequiredStk \subseteq columns.stk_data /\ RequiredPft \subseteq columns.pft_data)
    /\ LET out == log_exceptions_inclass("filter_data", "KeyError", log)
       IN  log' = out.log /\ raised' = out.raised
              /\ pc' = IF out.raised = "none" THEN "filter_data" ELSE "aborted"
    /\ UNCHANGED <<stk_folder, pft_folder, raw_data, columns, stk_data, pft_data,
                   gap_events, fin_data, growth_data, merged, selected, hold_period,
                   positions, portfolio_return>>

\* result.to_csv("filtered_data.csv"); logger.info: the end of the run.
Finish ==
    /\ pc = "filter_data"
    /\ log' = log \cup {LogRecord("info", "__main__", "done")}
    /\ pc' = "done"
    /\ UNCHANGED <<stk_folder, pft_folder, raw_data, columns, raised, stk_data,
                   pft_data, gap_events, fin_data, growth_data, merged, selected,
                   hold_period, positions, portfolio_return>>

NextRun ==
    \/ LoadCsvFiles
    \/ MergeAllData
    \/ MergeAllDataRaises
    \/ FilterData
    \/ FilterDataRaises
    \/ Finish

SpecRun == InitRun /\ [][NextRun]_vars

----------------------------------------------------------------------------
(* Claims about the run of __main__.                                       *)

\* The folder holds the six shards and the disclosure file, and one shard
\* alone fails to load.
OneShardFails ==
    /\ DOMAIN stk_folder = Range(ShardKeys)
    /\ Cardinality(Failed(stk_folder)) = 1
    /\ DOMAIN pft_folder = {PftKey} /\ Failed(pft_folder) = {}

\* The tables of the shards that were loaded, in the order of their keys.
LoadedShards ==
    LET keys == SelectSeq(ShardKeys, LAMBDA k : k \in DOMAIN raw_data)
    IN  [i \in DOMAIN keys |-> raw_data[keys[i]]]

\* C12 as stated: when one trading shard fails to load, load_csv_files logs
\* it, loads every remaining shard and returns without error, and the
\* following merge_all_data produces the unified trading table from the
\* rows of the loaded shards without aborting the run.
C12_Original ==
    [][OneShardFails =>
          /\ pc = "start" =>
                /\ pc' = "load_csv_files" /\ raised' = "none"
                /\ \A k \in Failed(stk_folder) :
                      LogRecord("warning", "load_csv_files", k) \in log'
                /\ DOMAIN raw_data' = Loaded(stk_folder) \cup {PftKey}
          /\ pc = "load_csv_files" =>
                /\ pc' = "input" /\ raised' = "none"
                /\ stk_data' = concat(LoadedShards).rows]_vars

\* A column filter_data reads by name is missing from one of its tables.
MissingColumn ==
    ~(RequiredStk \subseteq columns.stk_data /\ RequiredPft \subseteq columns.pft_data)

\* C13: when a required column is missing from an input table, filter_data
\* fails with an error that is logged and then raised to the caller, no
\* event table is returned, and the run takes no further step once an
\* error has reached the caller.
C13_MissingColumnAborts ==
    [][/\ pc = "input" /\ MissingColumn =>
             /\ raised' = "KeyError"
             /\ LogRecord("error", "filter_data", "filter_data") \in log'
             /\ gap_events' = gap_events
             /\ pc' = "aborted"
       /\ pc # "aborted"]_vars

\* filter_data was called on a trading table without the Hiprc column: the
\* error is logged, the run is aborted with it and no event was returned.
C13_Witness ==
    /\ pc = "aborted"
    /\ "Hiprc" \notin columns.stk_data /\ RequiredPft \subseteq columns.pft_data
    /\ stk_data # Empty
    /\ raised = "KeyError"
    /\ LogRecord("error", "filter_data", "filter_data") \in log
    /\ gap_events = Empty

----------------------------------------------------------------------------
(* Claims about the Gap Event Detector.                                    *)

\* The trading rows of instrument c with no missing field.
Sessions(c) == {r \in Range(stk_data) : ~r.na /\ r.Stkcd = c}

\* The sessions of instrument c on or after day d.
SessionsFrom(c, d) == {r \in Sessions(c) : r.Trddt >= d}

\* The events emitted for the disclosure d.
EventsOf(d) ==
    {e \in Range(gap_events) : e.Stkcd = d.Stkcd /\ e.Annodt = d.Annodt}

\* C1: every emitted event carries, as matched_trade_date, the earliest
\* trading date of its instrument (among the trading rows with no missing
\* field) that is >= its announce_date, and a disclosure with no such
\* trading row yields no event.
C1_MatchIsEarliestSessionFromAnnounce ==
    pc = "filter_data" =>
        /\ \A e \in Range(gap_events) :
              /\ e.Trddt.k = "num" /\ e.Trddt.d = 1
              /\ \E r \in SessionsFrom(e.Stkcd, e.Annodt) : r.Trddt = e.Trddt.n
              /\ \A r \in SessionsFrom(e.Stkcd, e.Annodt) : e.Trddt.n <= r.Trddt
        /\ \A d \in Range(pft_data) :
              SessionsFrom(d.Stkcd, d.Annodt) = {} => EventsOf(d) = {}

\* An event matched to a session on the very day of the announcement, after
\* which the instrument has a later session too.
C1_Witness ==
    /\ pc = "filter_data"
    /\ \E e \in Range(gap_events) :
          /\ e.Trddt = Num(e.Annodt)
          /\ \E r \in Sessions(e.Stkcd) : r.Trddt > e.Annodt

\* The session a disclosure is matched to is the first session of its
\* instrument.
MatchedIsFirstSession(d) ==
    /\ SessionsFrom(d.Stkcd, d.Annodt) # {}
    /\ \A r \in Sessions(d.Stkcd) : r.Trddt >= d.Annodt

\* C2: no emitted event has a null prior_high, and a disclosure whose
\* matched session is the first session of its instrument yields no event.
C2_NoEventWithoutPriorHigh ==
    pc = "filter_data" =>
        /\ \A e \in Range(gap_events) : ~IsNull(e.prev_Hiprc)
        /\ \A d \in Range(pft_data) : MatchedIsFirstSession(d) => EventsOf(d) = {}

\* A disclosure matched to the first session of its instrument, whose low
\* is above the high of an earlier session of another instrument, and no
\* event.
C2_Witness ==
    /\ pc = "filter_data"
    /\ gap_events = Empty
    /\ \E d \in Range(pft_data) :
          /\ ~d.na
          /\ MatchedIsFirstSession(d)
          /\ \E r \in SessionsFrom(d.Stkcd, d.Annodt), o \in Range(stk_data) :
                /\ ~o.na /\ o.Stkcd < r.Stkcd
                /\ o.Trddt < r.Trddt /\ o.Hiprc < r.Loprc

\* C3: every emitted event has matched_low > prior_high and a strictly
\* positive gap_pct = (matched_low - prior_high) / prior_high * 100; low 10.5
\* over a prior high of 10.0 (105 and 100 ticks) gives gap_pct 5.
C3_GapPctPositive ==
    pc = "filter_data" =>
        \A e \in Range(gap_events) :
            /\ e.Loprc.k = "num" /\ e.prev_Hiprc.k = "num" /\ e.gap_pct.k = "num"
            /\ e.Loprc.d = 1 /\ e.prev_Hiprc.d = 1
            /\ e.Loprc.n > e.prev_Hiprc.n
            /\ e.gap_pct.n * e.prev_Hiprc.n
                  = (e.Loprc.n - e.prev_Hiprc.n) * 100 * e.gap_pct.d
            /\ e.gap_pct.n > 0 /\ e.gap_pct.d > 0
            /\ (e.Loprc.n = 105 /\ e.prev_Hiprc.n = 100)
                  => (e.gap_pct.n = 5 /\ e.gap_pct.d = 1)

\* The scenario's event: low 10.5 over a prior high of 10.0.
C3_Witness ==
    /\ pc = "filter_data"
    /\ \E e \in Range(gap_events) :
          e.Loprc = Num(105) /\ e.prev_Hiprc = Num(100) /\ e.gap_pct = Num(5)

----------------------------------------------------------------------------
(* data_test.py: the Growth Feature Builder.                               *)

\* Series.pct_change: cur / prev - 1.
pct_change(cur, prev) == FSub(FDiv(cur, prev), Num(1))

\* fin_data.groupby('Stkcd')['Profita'].pct_change(periods=k) at row i of t:
\* NaN when the instrument has no row k places before.
group_pct_change(t, i, k) ==
    LET j == GroupShift(t, i, k)
    IN  IF j = 0 THEN NaN ELSE pct_change(Num(t[i].Profita), Num(t[j].Profita))

\* preprocess_financial_data: the table sorted by (Stkcd, Annodt), with the
\* growth over one period and over four.
preprocess_financial_data(fin) ==
    LET t == StableSort(fin, [i \in DOMAIN fin |-> <<fin[i].Stkcd, fin[i].Annodt>>])
    IN  [i \in DOMAIN t |->
            [Stkcd |-> t[i].Stkcd, Reptyp |-> t[i].Reptyp, Annodt |-> t[i].Annodt,
             Profita |-> t[i].Profita, na |-> t[i].na,
             profit_growth |-> group_pct_change(t, i, 1),
             profit_growth_2y |-> group_pct_change(t, i, 4)]]

----------------------------------------------------------------------------
(* data_test.py: the Strategy Selector.                                    *)
(* Day 1 is the 1st of January of a year; every year has 365 days (leap     *)
(* days are left out of the calendar).                                      *)

MonthLens == <<31, 28, 31, 30, 31, 30, 31, 31, 30, 31, 30, 31>>

\* The days of a year before its month m (1..12).
RECURSIVE DaysBefore(_)
DaysBefore(m) == IF m = 1 THEN 0 ELSE DaysBefore(m - 1) + MonthLens[m - 1]

\* The month (1..12) of the day doy (1..365) of a year.
MonthOf(doy) == CHOOSE m \in 1..12 : DaysBefore(m) < doy /\ doy <= DaysBefore(m) + MonthLens[m]

\* A shift by 30 days a month in place of calendar months.
AddMonths_days(date, k) == date + 30 * k

\* date + pd.DateOffset(months=k): the same day of the month k months later,
\* the last day of that month when it is shorter.
AddMonths(date, k) ==
    LET year == (date - 1) \div 365
        doy == ((date - 1) % 365) + 1
        m == MonthOf(doy)
        dom == doy - DaysBefore(m)
        mi == year * 12 + (m - 1) + k
        m2 == (mi % 12) + 1
        dom2 == IF dom > MonthLens[m2] THEN MonthLens[m2] ELSE dom
    IN  (mi \div 12) * 365 + DaysBefore(m2) + dom2

\* dropna_fin dropping nothing.
dropna_fin_none(t) == t

\* fin_data.dropna(): a growth record is dropped when any field is missing.
dropna_fin(t) ==
    SelectSeq(t, LAMBDA r : ~(r.na \/ IsNull(r.profit_growth) \/ IsNull(r.profit_growth_2y)))

\* merge_backward joining forward in time instead.
merge_backward_forward(ev, fin) ==
    [i \in DOMAIN ev |->
        LET j == AsofForward(fin, [m \in DOMAIN fin |-> fin[m].Annodt],
                             ev[i].Stkcd, ev[i].Annodt)
        IN  [Stkcd |-> ev[i].Stkcd, Reptyp |-> ev[i].Reptyp, Annodt |-> ev[i].Annodt,
             Trddt |-> ev[i].Trddt, Loprc |-> ev[i].Loprc,
             prev_Hiprc |-> ev[i].prev_Hiprc, gap_pct |-> ev[i].gap_pct,
             Profita |-> IF j = 0 THEN NaN ELSE Num(fin[j].Profita),
             profit_growth |-> IF j = 0 THEN NaN ELSE fin[j].profit_growth,
             profit_growth_2y |-> IF j = 0 THEN NaN ELSE fin[j].profit_growth_2y,
             fin_Stkcd |-> IF j = 0 THEN NaN ELSE Num(fin[j].Stkcd),
             fin_Annodt |-> IF j = 0 THEN NaN ELSE Num(fin[j].Annodt),
             ago |-> <<>>]]

\* pd.merge_asof(gap_events sorted by Annodt, fin sorted by Annodt,
\* on='Annodt', by='Stkcd', direction='backward'): every event with the
\* columns of its matched growth record, NaN when it has none.  fin_Stkcd
\* and fin_Annodt are no columns of the source's table (the join drops the
\* right key): they record which growth record was attached.
merge_backward(ev, fin) ==
    [i \in DOMAIN ev |->
        LET j == AsofBackward(fin, [m \in DOMAIN fin |-> fin[m].Annodt],
                              ev[i].Stkcd, ev[i].Annodt)
        IN  [Stkcd |-> ev[i].Stkcd, Reptyp |-> ev[i].Reptyp, Annodt |-> ev[i].Annodt,
             Trddt |-> ev[i].Trddt, Loprc |-> ev[i].Loprc,
             prev_Hiprc |-> ev[i].prev_Hiprc, gap_pct |-> ev[i].gap_pct,
             Profita |-> IF j = 0 THEN NaN ELSE Num(fin[j].Profita),
             profit_growth |-> IF j = 0 THEN NaN ELSE fin[j].profit_growth,
             profit_growth_2y |-> IF j = 0 THEN NaN ELSE fin[j].profit_growth_2y,
             fin_Stkcd |-> IF j = 0 THEN NaN ELSE Num(fin[j].Stkcd),
             fin_Annodt |-> IF j = 0 THEN NaN ELSE Num(fin[j].Annodt),
             ago |-> <<>>]]

\* The rows a row r of merged becomes in
\* pd.merge(merged, temp, on=['Stkcd', 'Annodt'], how='left'), temp being
\* fin with Annodt shifted by 3 * q months and profit_growth renamed
\* growth_{q}q_ago: one row for each row of temp with r's key, in temp's
\* order, and one row with NaN when there is none.  ago[q] is growth_{q}q_ago.
offset_rows(r, fin, q) ==
    LET hits == SelectSeq(fin, LAMBDA f :
                    f.Stkcd = r.Stkcd /\ AddMonths(f.Annodt, 3 * q) = r.Annodt)
    IN  IF hits = <<>>
        THEN <<[r EXCEPT !.ago = Append(@, NaN)]>>
        ELSE [h \in DOMAIN hits |-> [r EXCEPT !.ago = Append(@, hits[h].profit_growth)]]

RECURSIVE Flatten(_)
Flatten(ss) == IF ss = <<>> THEN <<>> ELSE Head(ss) \o Flatten(Tail(ss))

\* for i in range(1, 9): merged = pd.merge(merged, temp, ...), from i = q on.
RECURSIVE offset_joins(_, _, _)
offset_joins(t, fin, q) ==
    IF q > OffsetQuarters THEN t
    ELSE offset_joins(Flatten([i \in DOMAIN t |-> offset_rows(t[i], fin, q)]), fin, q + 1)

\* condition = (merged['profit_growth_2y'] > 50)
condition(r) == FGt(r.profit_growth_2y, Num(GrowthThreshold))

\* strategy_consistent_growth: the pairs <<merged, selected>> it can compute
\* for the tables gap and fin (one for each order the single-column sorts
\* may leave equal dates in); it returns selected.
strategy_consistent_growth(gap, fin) ==
    LET fin1 == dropna_fin(fin)
    IN  {LET m == offset_joins(merge_backward(g, f), fin, 1)
         IN  <<m, SelectSeq(m, condition)>> :
            g \in SortValues(gap, [i \in DOMAIN gap |-> <<gap[i].Annodt, 0>>]),
            f \in SortValues(fin1, RightKeys([i \in DOMAIN fin1 |-> fin1[i].Annodt], fin1))}

----------------------------------------------------------------------------
(* data_test.py: the Backtest Engine.  A benchmark adds columns to the     *)
(* rows of portfolio_return (a left join on their distinct buy_dates) and  *)
(* leaves the rows, return and cum_return as they are; it is left out.     *)
(* A position is a row of selected_stocks: the columns the engine reads    *)
(* and writes, and Annodt of the columns it carries along.                 *)

\* selected_stocks['buy_date'] = ...; selected_stocks['sell_date'] = ...:
\* both columns are assigned on the table the caller passed, which keeps
\* them after the call.
assign_dates(sel, hold) ==
    [i \in DOMAIN sel |->
        sel[i] @@ [buy_date |-> sel[i].Trddt.n, sell_date |-> sel[i].Trddt.n + hold]]

\* selected_stocks['buy_date'] = selected_stocks['Trddt'];
\* selected_stocks['sell_date'] = buy_date + pd.Timedelta(days=hold_period)
add_dates(sel, hold) ==
    [i \in DOMAIN sel |->
        [Stkcd |-> sel[i].Stkcd, Annodt |-> sel[i].Annodt,
         buy_date |-> sel[i].Trddt.n, sell_date |-> sel[i].Trddt.n + hold]]

\* merge_buy_price matching forward: the first session at or after buy_date.
merge_buy_price_forward(pos, price) ==
    [i \in DOMAIN pos |->
        LET j == AsofForward(price, [m \in DOMAIN price |-> price[m].Trddt],
                             pos[i].Stkcd, pos[i].buy_date)
        IN  [Stkcd |-> pos[i].Stkcd, Annodt |-> pos[i].Annodt,
             buy_date |-> pos[i].buy_date, sell_date |-> pos[i].sell_date,
             buy_price |-> IF j = 0 THEN NaN ELSE Num(price[j].Clsprc)]]

\* pd.merge_asof(selected_stocks sorted by buy_date, price_data sorted by
\* its date, on='buy_date', by='Stkcd', direction='backward'): buy_price is
\* the close of the matched price row, NaN when there is none.
merge_buy_price(pos, price) ==
    [i \in DOMAIN pos |->
        LET j == AsofBackward(price, [m \in DOMAIN price |-> price[m].Trddt],
                              pos[i].Stkcd, pos[i].buy_date)
        IN  [Stkcd |-> pos[i].Stkcd, Annodt |-> pos[i].Annodt,
             buy_date |-> pos[i].buy_date, sell_date |-> pos[i].sell_date,
             buy_price |-> IF j = 0 THEN NaN ELSE Num(price[j].Clsprc)]]

\* pd.merge_asof(selected_stocks sorted by sell_date, price_data sorted by
\* its date, on='sell_date', by='Stkcd', direction='forward'), and
\* selected_stocks['return'] = sell_price / buy_price - 1
merge_sell_price(pos, price) ==
    [i \in DOMAIN pos |->
        LET j == AsofForward(price, [m \in DOMAIN price |-> price[m].Trddt],
                             pos[i].Stkcd, pos[i].sell_date)
            sell == IF j = 0 THEN NaN ELSE Num(price[j].Clsprc)
        IN  [Stkcd |-> pos[i].Stkcd, Annodt |-> pos[i].Annodt,
             buy_date |-> pos[i].buy_date, sell_date |-> pos[i].sell_date,
             buy_price |-> pos[i].buy_price, sell_price |-> sell,
             return |-> FSub(FDiv(sell, pos[i].buy_price), Num(1))]]

\* The sum of the values xs[i], i in idxs.
RECURSIVE FSum(_, _)
FSum(xs, idxs) ==
    IF idxs = {} THEN Num(0)
    ELSE LET i == CHOOSE m \in idxs : TRUE IN FAdd(xs[i], FSum(xs, idxs \ {i}))

\* group_mean over the positions of every buy_date.
group_mean_all_dates(pos, date) ==
    LET valid == {i \in DOMAIN pos : ~IsNull(pos[i].return)}
    IN  IF valid = {} THEN NaN
        ELSE FDiv(FSum([i \in DOMAIN pos |-> pos[i].return], valid),
                  Num(Cardinality(valid)))

\* groupby('buy_date')['return'].mean() for one buy_date: the mean of the
\* returns of its positions that are not NaN, NaN when all are.
group_mean(pos, date) ==
    LET valid == {i \in DOMAIN pos : pos[i].buy_date = date /\ ~IsNull(pos[i].return)}
    IN  IF valid = {} THEN NaN
        ELSE FDiv(FSum([i \in DOMAIN pos |-> pos[i].return], valid),
                  Num(Cardinality(valid)))

\* The numbers of a set, ascending.
RECURSIVE Ascending(_)
Ascending(S) ==
    IF S = {} THEN <<>>
    ELSE LET x == CHOOSE y \in S : \A z \in S : y <= z
         IN  <<x>> \o Ascending(S \ {x})

\* group_rows leaving out the buy_dates whose positions all have a NaN return.
group_rows_dropna(pos) ==
    LET dates == Ascending({pos[i].buy_date : i \in
                    {m \in DOMAIN pos : ~IsNull(pos[m].return)}})
    IN  [i \in DOMAIN dates |->
            [buy_date |-> dates[i], return |-> group_mean(pos, dates[i])]]

\* selected_stocks.groupby('buy_date')['return'].mean().reset_index(): one
\* row for each buy_date, in ascending order.
group_rows(pos) ==
    LET dates == Ascending({pos[i].buy_date : i \in DOMAIN pos})
    IN  [i \in DOMAIN dates |->
            [buy_date |-> dates[i], return |-> group_mean(pos, dates[i])]]

\* (1 + return).cumprod() up to row i, NaN being skipped: the product of the
\* 1 + return of the rows 1..i whose return is not NaN.
RECURSIVE cumprod(_, _)
cumprod(t, i) ==
    IF i = 0 THEN Num(1)
    ELSE IF IsNull(t[i].return) THEN cumprod(t, i - 1)
    ELSE FMul(cumprod(t, i - 1), FAdd(Num(1), t[i].return))

\* A running sum of the returns in place of the compounded product.
cum_return_sum(t, i) ==
    IF IsNull(t[i].return) THEN NaN
    ELSE FSum([j \in DOMAIN t |-> t[j].return],
              {j \in 1..i : ~IsNull(t[j].return)})

\* portfolio_return['cum_return'] at row i: cumprod - 1, NaN where the
\* row's return is NaN.
cum_return(t, i) ==
    IF IsNull(t[i].return) THEN NaN ELSE FSub(cumprod(t, i), Num(1))

add_cum_return(t) ==
    [i \in DOMAIN t |->
        [buy_date |-> t[i].buy_date, return |-> t[i].return,
         cum_return |-> cum_return(t, i)]]

\* backtest_strategy(selected_stocks, price_data, hold_period): the pairs
\* <<selected_stocks with prices and returns, portfolio_return>> it can
\* compute (one for each order the single-column sorts may leave equal
\* dates in); it returns portfolio_return.
backtest_strategy(sel, price, hold) ==
    LET pos0 == add_dates(sel, hold)
        pkeys == RightKeys([i \in DOMAIN price |-> price[i].Trddt], price)
    IN  UNION {UNION {{<<merge_sell_price(p2, pr2), add_cum_return(group_rows(merge_sell_price(p2, pr2)))>> :
                          p2 \in SortValues(merge_buy_price(p1, pr1),
                                            [i \in DOMAIN p1 |-> <<p1[i].sell_date, 0>>]),
                          pr2 \in SortValues(price, pkeys)} :
                      pr1 \in SortValues(price, pkeys)} :
                  p1 \in SortValues(pos0, [i \in DOMAIN pos0 |-> <<pos0[i].buy_date, 0>>])}

----------------------------------------------------------------------------
(* Bounded inputs of the Growth Feature Builder: the first instrument has   *)
(* up to MaxFin disclosures, the second up to two, none announced twice a   *)
(* day.                                                                     *)

Profits == {0, 1, 2}

FinCells == ({1} \X (1..MaxFin)) \cup ({2} \X (1..2))

\* The rows of the set rows, latest announcement first.
UnsortedFin(rows) == Descending({<<<<r.Annodt, r.Stkcd>>, r>> : r \in rows})

\* The disclosure tables of at most n rows.
FinTables(n) ==
    UNION {{UnsortedFin({PftRow(x[1], x[2], f[x], FALSE) : x \in C}) : f \in [C -> Profits]} :
           C \in {D \in SUBSET FinCells : Cardinality(D) <= n}}

\* The spec's scenario: profits 100 then 150; and five quarters 5, 5, 5, 5, 8.
ScenarioFin ==
    {<<PftRow(1, 1, 100, FALSE), PftRow(1, 2, 150, FALSE)>>,
     <<PftRow(1, 5, 8, FALSE), PftRow(1, 1, 5, FALSE), PftRow(1, 2, 5, FALSE),
       PftRow(1, 3, 5, FALSE), PftRow(1, 4, 5, FALSE)>>}

InitGrowth ==
    /\ pc = "input"
    /\ \E tables \in {FinTables(MaxFin)} : fin_data \in tables \cup ScenarioFin
    /\ stk_data = Empty
    /\ pft_data = Empty
    /\ gap_events = Empty
    /\ growth_data = Empty
    /\ merged = Empty
    /\ selected = Empty
    /\ hold_period = HoldPeriodDefault
    /\ positions = Empty
    /\ portfolio_return = Empty
    /\ TablesGiven

\* fin_data = preprocess_financial_data(fin_data)
Preprocess ==
    /\ pc = "input"
    /\ growth_data' = preprocess_financial_data(fin_data)
    /\ pc' = "preprocess_financial_data"
    /\ UNCHANGED run_vars
    /\ UNCHANGED <<stk_data, pft_data, gap_events, fin_data, merged, selected,
                   hold_period, positions, portfolio_return>>

NextGrowth == Preprocess

SpecGrowth == InitGrowth /\ [][NextGrowth]_vars

----------------------------------------------------------------------------
(* Claims about the Growth Feature Builder.                                *)

\* The growth records of instrument c, in the order of the returned table.
RecordsOf(c) == SelectSeq(growth_data, LAMBDA r : r.Stkcd = c)

\* g is the growth from the profit prev to the profit cur: cur / prev - 1,
\* +-inf over a zero base and NaN for 0 / 0.
IsGrowth(g, cur, prev) ==
    IF prev = 0
    THEN g = (IF cur > 0 THEN Inf ELSE IF cur < 0 THEN NInf ELSE NaN)
    ELSE g.k = "num" /\ g.d # 0 /\ g.n * prev = (cur - prev) * g.d

\* What C7 says of every instrument but the 5th record: the records are in
\* announce_date order, single_period_growth is null at the first,
\* multi_period_growth is null at the first 4, and each growth is computed
\* from the profit one (four) records before of the same instrument.
GrowthPerInstrument(s) ==
    /\ \A i, j \in DOMAIN s : i < j => s[i].Annodt <= s[j].Annodt
    /\ \A i \in DOMAIN s :
          /\ i = 1 => IsNull(s[i].profit_growth)
          /\ i <= 4 => IsNull(s[i].profit_growth_2y)
          /\ i > 1 => IsGrowth(s[i].profit_growth, s[i].Profita, s[i - 1].Profita)
          /\ i > 4 => IsGrowth(s[i].profit_growth_2y, s[i].Profita, s[i - 4].Profita)

\* C7 as stated: per instrument, in announce_date order, single_period_growth
\* is null at the first record, multi_period_growth is null at each of the
\* first 4 records and defined at the 5th, and the lag never reads a profit
\* of another instrument.
C7_Original ==
    pc = "preprocess_financial_data" =>
        \A c \in Stkcds :
            /\ GrowthPerInstrument(RecordsOf(c))
            /\ Len(RecordsOf(c)) >= 5 => ~IsNull(RecordsOf(c)[5].profit_growth_2y)

\* C7 as amended: the same, but multi_period_growth at the 5th record is
\* defined unless the 1st and the 5th profit are both 0 (0 / 0 is NaN).
C7_GrowthNullsPerInstrument ==
    pc = "preprocess_financial_data" =>
        \A c \in Stkcds :
            /\ GrowthPerInstrument(RecordsOf(c))
            /\ Len(RecordsOf(c)) >= 5 =>
                  (IsNull(RecordsOf(c)[5].profit_growth_2y)
                      <=> (RecordsOf(c)[1].Profita = 0 /\ RecordsOf(c)[5].Profita = 0))

\* Five records of the first instrument with profits 5, 5, 5, 5, 8: both
\* growths are 0.6 at the 5th.
C7_Witness ==
    /\ pc = "preprocess_financial_data"
    /\ Len(RecordsOf(1)) = 5
    /\ RecordsOf(1)[5].profit_growth_2y = Rat(3, 5)
    /\ RecordsOf(1)[5].profit_growth = Rat(3, 5)

----------------------------------------------------------------------------
(* Bounded inputs of the Strategy Selector: gap events and growth records   *)
(* (disclosures with their growth columns), one per instrument and day.     *)

GrowthRow(c, d, g, g2) ==
    [Stkcd |-> c, Reptyp |-> 1, Annodt |-> d, Profita |-> 1, na |-> FALSE,
     profit_growth |-> g, profit_growth_2y |-> g2]

EventRow(c, d) ==
    [Stkcd |-> c, Reptyp |-> 1, Annodt |-> d, Trddt |-> Num(d), Loprc |-> Num(2),
     prev_Hiprc |-> Num(1), gap_pct |-> Num(100)]

\* The <<profit_growth, profit_growth_2y>> of a record: of an instrument's
\* first record, and of later ones growing 60 % and 5100 % in a year.
Growths == {<<NaN, NaN>>, <<Rat(1, 10), Rat(3, 5)>>, <<Rat(1, 10), Num(51)>>}

RECURSIVE GrowthRowSets(_)
GrowthRowSets(C) ==
    IF C = {} THEN {{}}
    ELSE LET x == CHOOSE y \in C : TRUE
         IN  {rest \cup {GrowthRow(x[1], x[2], g[1], g[2])} :
                 rest \in GrowthRowSets(C \ {x}), g \in Growths}

\* The tables of at most n growth records.
GrowthTables(n) ==
    UNION {{UnsortedFin(rows) : rows \in GrowthRowSets(C)} :
           C \in {D \in SUBSET (Stkcds \X Dates) : Cardinality(D) <= n}}

\* The tables of at most n gap events.
EventTables(n) ==
    {UnsortedFin({EventRow(x[1], x[2]) : x \in C}) :
        C \in {D \in SUBSET (Stkcds \X Dates) : Cardinality(D) <= n}}

\* Two events a quarter after a growth record of their instrument, to the
\* day: the first instrument grew 60 % in a year, the second 40 %.
ScenarioGrowth ==
    <<GrowthRow(1, 1, Rat(1, 2), Rat(3, 5)), GrowthRow(2, 1, Rat(1, 2), Rat(2, 5))>>
ScenarioEvents == <<EventRow(1, 91), EventRow(2, 91)>>

\* Five quarterly disclosures of the first instrument, on the 1st of
\* January, April, July and October and of the next January, with profits
\* 0, 1, 1, 1, 2, as the Growth Feature Builder returns them, and an event
\* on the 1st of April after them.
ZeroBaseFin ==
    <<PftRow(1, 1, 0, FALSE), PftRow(1, 91, 1, FALSE), PftRow(1, 182, 1, FALSE),
      PftRow(1, 274, 1, FALSE), PftRow(1, 366, 2, FALSE)>>
ZeroBaseEvents == <<EventRow(1, 456)>>

\* Two disclosures of the first instrument on the 29th and the 30th of
\* November, and an event on the 28th of February after them.
MonthEndGrowth ==
    <<GrowthRow(1, 333, Rat(1, 10), Num(51)), GrowthRow(1, 334, Rat(1, 5), Num(51))>>
MonthEndEvents == <<EventRow(1, 424)>>

\* The scenarios: <<gap events, growth records>>.
Scenarios ==
    {<<ScenarioEvents, ScenarioGrowth>>,
     <<ZeroBaseEvents, preprocess_financial_data(ZeroBaseFin)>>,
     <<MonthEndEvents, MonthEndGrowth>>}

InitSelect ==
    /\ pc = "input"
    /\ \/ \E events \in {EventTables(MaxEvents)}, records \in {GrowthTables(MaxGrowth)} :
              gap_events \in events /\ growth_data \in records
       \/ \E sc \in Scenarios : gap_events = sc[1] /\ growth_data = sc[2]
    /\ stk_data = Empty
    /\ pft_data = Empty
    /\ fin_data = Empty
    /\ merged = Empty
    /\ selected = Empty
    /\ hold_period = HoldPeriodDefault
    /\ positions = Empty
    /\ portfolio_return = Empty
    /\ TablesGiven

\* consistent_growth_stocks = strategy_consistent_growth(gap_events, fin_data)
Select ==
    /\ pc = "input"
    /\ \E ms \in strategy_consistent_growth(gap_events, growth_data) :
          merged' = ms[1] /\ selected' = ms[2]
    /\ pc' = "strategy_consistent_growth"
    /\ UNCHANGED run_vars
    /\ UNCHANGED <<stk_data, pft_data, gap_events, fin_data, growth_data,
                   hold_period, positions, portfolio_return>>

NextSelect == Select

SpecSelect == InitSelect /\ [][NextSelect]_vars

----------------------------------------------------------------------------
(* Claims about the Strategy Selector.                                     *)

\* The growth records of instrument c announced on or before day d.
RecordsUpTo(c, d) == {f \in Range(growth_data) : f.Stkcd = c /\ f.Annodt <= d}

\* The growth records with no missing field.
Complete(fs) ==
    {f \in fs : ~f.na /\ ~IsNull(f.profit_growth) /\ ~IsNull(f.profit_growth_2y)}

\* Row r of merged carries the growth record f.
Attached(r, f) ==
    /\ r.fin_Stkcd = Num(f.Stkcd) /\ r.fin_Annodt = Num(f.Annodt)
    /\ r.Profita = Num(f.Profita)
    /\ r.profit_growth = f.profit_growth
    /\ r.profit_growth_2y = f.profit_growth_2y

\* Row r of merged carries the latest record of fs, and no record when fs
\* is empty.
AttachedLatest(r, fs) ==
    IF fs = {} THEN IsNull(r.fin_Annodt) /\ IsNull(r.profit_growth_2y)
    ELSE \E f \in fs : Attached(r, f) /\ \A o \in fs : o.Annodt <= f.Annodt

\* C4: the growth record attached to an output row belongs to the row's
\* instrument and was not announced after the event's announce_date.
C4_NoLookAhead ==
    pc = "strategy_consistent_growth" =>
        \A r \in Range(selected) :
            /\ r.fin_Stkcd = Num(r.Stkcd)
            /\ r.fin_Annodt.k = "num" /\ r.fin_Annodt.n <= r.Annodt
            /\ \E f \in RecordsUpTo(r.Stkcd, r.Annodt) : Attached(r, f)

\* An output row whose growth record was announced before the event, its
\* instrument having a later record, announced after the event.
C4_Witness ==
    /\ pc = "strategy_consistent_growth"
    /\ \E r \in Range(selected) :
          /\ r.fin_Annodt.n < r.Annodt
          /\ \E f \in Range(growth_data) : f.Stkcd = r.Stkcd /\ f.Annodt > r.Annodt

\* C5 as stated: every gap event carries the most recent growth record of
\* its instrument announced at or before the event's announce_date,
\* whatever the growth values of that record are.
C5_Original ==
    pc = "strategy_consistent_growth" =>
        \A r \in Range(merged) : AttachedLatest(r, RecordsUpTo(r.Stkcd, r.Annodt))

\* C5 as amended: every gap event carries the most recent growth record of
\* its instrument that has no missing field (no null growth) and was
\* announced at or before the event's announce_date.
C5_LatestCompleteRecord ==
    pc = "strategy_consistent_growth" =>
        /\ \A e \in Range(gap_events) :
              \E r \in Range(merged) : r.Stkcd = e.Stkcd /\ r.Annodt = e.Annodt
        /\ \A r \in Range(merged) :
              /\ \E e \in Range(gap_events) : r.Stkcd = e.Stkcd /\ r.Annodt = e.Annodt
              /\ AttachedLatest(r, Complete(RecordsUpTo(r.Stkcd, r.Annodt)))

\* An event that carries an older record because the most recent one at or
\* before it has a null growth.
C5_Witness ==
    /\ pc = "strategy_consistent_growth"
    /\ \E r \in Range(merged) :
          /\ ~IsNull(r.fin_Annodt)
          /\ \E f \in RecordsUpTo(r.Stkcd, r.Annodt) :
                IsNull(f.profit_growth_2y) /\ f.Annodt > r.fin_Annodt.n

\* C6 as stated: with the default predicate an event is in the output
\* exactly when its multi_period_growth, a fraction, is > 0.5 (0.6 is
\* selected, 0.4 is not).
C6_Original ==
    pc = "strategy_consistent_growth" =>
        selected = SelectSeq(merged, LAMBDA r : FGt(r.profit_growth_2y, Rat(1, 2)))


\* The growth record f is the one r carries, and the profit four records
\* before it in its instrument's history is 0.
FromZeroBase(f) ==
    LET s4 == SelectSeq(growth_data, LAMBDA g : g.Stkcd = f.Stkcd /\ g.Annodt <= f.Annodt)
    IN  Len(s4) > 4 /\ s4[Len(s4) - 4].Profita = 0

\* C15 as stated: a growth computed from a prior profit of 0 is null, and
\* an event whose attached multi_period_growth comes from a zero base never
\* passes the predicate of the Strategy Selector.
C15_Original ==
    pc = "strategy_consistent_growth" =>
        /\ \A f \in Range(growth_data) :
              FromZeroBase(f) => IsNull(f.profit_growth_2y)
        /\ \A r \in Range(selected) :
              ~\E f \in Range(growth_data) : Attached(r, f) /\ FromZeroBase(f)

\* The year (from 0), the month and the day of the month of a day number.
YearOf(date) == (date - 1) \div 365
MonthOfDate(date) == MonthOf(((date - 1) % 365) + 1)
DayOfMonth(date) == ((date - 1) % 365) + 1 - DaysBefore(MonthOfDate(date))

\* The day a, moved k calendar months on, is the day D: D is k months
\* after a's month, on a's day of the month or on the last day of the month
\* when the month is shorter.
ShiftsOnto(a, k, D) ==
    /\ YearOf(D) * 12 + MonthOfDate(D) = YearOf(a) * 12 + MonthOfDate(a) + k
    /\ DayOfMonth(D) = IF DayOfMonth(a) > MonthLens[MonthOfDate(D)]
                       THEN MonthLens[MonthOfDate(D)] ELSE DayOfMonth(a)

\* The disclosures of r's instrument whose announce_date, moved 3 * k
\* months on, is r's announce_date.
ShiftedOnto(r, k) ==
    {f \in Range(growth_data) : f.Stkcd = r.Stkcd /\ ShiftsOnto(f.Annodt, 3 * k, r.Annodt)}

\* C16: every event has its rows in the joined table, and in every row,
\* for every k in 1..8, growth_k_periods_ago is the single_period_growth of
\* a disclosure of the same instrument whose announce_date moved 3k months
\* on is exactly the event's announce_date, and null when there is none.
C16_OffsetLookupExact ==
    pc = "strategy_consistent_growth" =>
        /\ \A e \in Range(gap_events) :
              \E r \in Range(merged) : r.Stkcd = e.Stkcd /\ r.Annodt = e.Annodt
        /\ \A r \in Range(merged) :
              /\ Len(r.ago) = OffsetQuarters
              /\ \A k \in 1..OffsetQuarters :
                    IF ShiftedOnto(r, k) = {} THEN IsNull(r.ago[k])
                    ELSE \E f \in ShiftedOnto(r, k) : r.ago[k] = f.profit_growth

\* An event with the growth of the disclosures 3 and 6 months before it,
\* to the day, and with no disclosure 24 months before it.
C16_Witness ==
    /\ pc = "strategy_consistent_growth"
    /\ \E r \in Range(merged) :
          /\ ShiftedOnto(r, 1) # {} /\ ~IsNull(r.ago[1])
          /\ ShiftedOnto(r, 2) # {} /\ ~IsNull(r.ago[2])
          /\ ShiftedOnto(r, 8) = {} /\ IsNull(r.ago[8])

\* C17 as stated, for the Strategy Selector: it emits at most one output
\* row for an input gap event; neither the as-of join nor the 8 offset
\* left-joins duplicate an event row.
C17_Original ==
    pc = "strategy_consistent_growth" =>
        /\ Len(merged) = Len(gap_events)
        /\ \A e \in Range(gap_events) :
              Cardinality({i \in DOMAIN selected :
                  selected[i].Stkcd = e.Stkcd /\ selected[i].Annodt = e.Annodt}) <= 1

----------------------------------------------------------------------------
(* Bounded inputs of the Backtest Engine: closes are positive, a price     *)
(* table holds one row for an instrument and a date, and so does a table   *)
(* of selected stocks.  hold_period is 1 or 2 days: the default of 90 days  *)
(* ends after every bounded price history.                                 *)

HoldPeriods == {1, 2}

\* The close of instrument c on day d in the bounded price history: 1 and 2
\* in turn, the instruments out of step.
Close(c, d) == 1 + ((c + d) % 2)

\* The price tables: at most n sessions of the bounded price history.
PriceTables(n) ==
    {Unsorted({StkRow(x[1], x[2], Close(x[1], x[2]), Close(x[1], x[2]),
                      Close(x[1], x[2]), FALSE) : x \in C}) :
        C \in {D \in SUBSET (Stkcds \X Dates) : Cardinality(D) <= n}}

\* The tables of selected stocks: at most n of the <<instrument, date>> cells.
SelectedTables(cells, n) ==
    {UnsortedFin({EventRow(x[1], x[2]) : x \in C}) :
        C \in {D \in SUBSET cells : Cardinality(D) <= n}}

\* The spec's scenarios: instrument 1 closes at 10, 11, 10, 12 on days 1..4,
\* instrument 2 at 20, 19 on days 2, 3 and instrument 3 at 10, 12 on days
\* 1, 2: held for a day, returns of 0.10 and 0.20 on day 1, -0.05 on day 2
\* and 0.20 on day 3; instrument 2 bought on day 3 and instrument 3 bought
\* on day 2 have no session to be sold in.
ScenarioPrices ==
    <<StkRow(1, 4, 12, 12, 12, FALSE), StkRow(1, 3, 10, 10, 10, FALSE),
      StkRow(2, 3, 19, 19, 19, FALSE), StkRow(1, 2, 11, 11, 11, FALSE),
      StkRow(2, 2, 20, 20, 20, FALSE), StkRow(3, 2, 12, 12, 12, FALSE),
      StkRow(1, 1, 10, 10, 10, FALSE), StkRow(3, 1, 10, 10, 10, FALSE)>>

ScenarioCells == {<<1, 1>>, <<3, 1>>, <<2, 2>>, <<3, 2>>, <<1, 3>>, <<2, 3>>}

InitBacktest ==
    /\ pc = "input"
    /\ \/ \E prices \in {PriceTables(MaxStk)},
               stocks \in {SelectedTables(Stkcds \X Dates, MaxEvents)} :
              /\ stk_data \in prices
              /\ selected \in stocks
              /\ hold_period \in HoldPeriods
       \/ \E stocks \in {SelectedTables(ScenarioCells, Cardinality(ScenarioCells))} :
              /\ stk_data = ScenarioPrices
              /\ selected \in stocks
              /\ hold_period = 1
    /\ pft_data = Empty
    /\ gap_events = Empty
    /\ fin_data = Empty
    /\ growth_data = Empty
    /\ merged = Empty
    /\ positions = Empty
    /\ portfolio_return = Empty
    /\ TablesGiven

\* backtest_consistent = backtest_strategy(consistent_growth_stocks, price_data, hold_period=...)
Backtest ==
    /\ pc = "input"
    /\ \E pp \in backtest_strategy(selected, stk_data, hold_period) :
          positions' = pp[1] /\ portfolio_return' = pp[2]
    /\ selected' = assign_dates(selected, hold_period)
    /\ pc' = "backtest_strategy"
    /\ UNCHANGED run_vars
    /\ UNCHANGED <<stk_data, pft_data, gap_events, fin_data, growth_data, merged,
                   hold_period>>

NextBacktest == Backtest

SpecBacktest == InitBacktest /\ [][NextBacktest]_vars

----------------------------------------------------------------------------
(* Claims about the Backtest Engine.                                       *)

\* The positions bought on day d.
BoughtOn(d) == {i \in DOMAIN positions : positions[i].buy_date = d}

\* Position i is to be sold after the last price date of its instrument.
SoldTooLate(i) ==
    \A m \in DOMAIN stk_data :
        stk_data[m].Stkcd = positions[i].Stkcd
            => stk_data[m].Trddt < positions[i].sell_date

\* The rows of the output for day d.
RowsOf(d) == {r \in DOMAIN portfolio_return : portfolio_return[r].buy_date = d}

\* x is the arithmetic mean of the returns of the positions idxs (none of
\* them null), and null when there are none.
IsMeanOf(x, idxs) ==
    IF idxs = {} THEN IsNull(x)
    ELSE /\ x.k = "num"
         /\ FMul(x, Num(Cardinality(idxs)))
                = FSum([i \in DOMAIN positions |-> positions[i].return], idxs)

\* C8 as stated: a position to be sold after the last price date of its
\* instrument has a null return and does not contribute to the portfolio
\* return of its buy_date, and when it is the only position of its buy_date
\* the output has no row for that buy_date.
C8_Original ==
    pc = "backtest_strategy" =>
        \A i \in DOMAIN positions :
            SoldTooLate(i) =>
                /\ IsNull(positions[i].return)
                /\ BoughtOn(positions[i].buy_date) = {i}
                      => RowsOf(positions[i].buy_date) = {}

\* C8 as amended: a position to be sold after the last price date of its
\* instrument has a null return and does not contribute to the portfolio
\* return of its buy_date, which is the mean of the returns of the other
\* positions of that date that are not null; when no position of the date
\* has a return, the output still has a row for that buy_date, with a null
\* portfolio return and a null cumulative return.
C8_NullReturnKeepsRow ==
    pc = "backtest_strategy" =>
        \A i \in DOMAIN positions :
            SoldTooLate(i) =>
                LET d == positions[i].buy_date
                    others == {j \in BoughtOn(d) \ {i} : ~IsNull(positions[j].return)}
                IN  /\ IsNull(positions[i].return)
                    /\ \E r \in RowsOf(d) :
                          /\ IsMeanOf(portfolio_return[r].return, others)
                          /\ others = {} => IsNull(portfolio_return[r].cum_return)

\* A position sold too late that is the only one of its buy_date, and one
\* that shares its buy_date with a position that has a return.
C8_Witness ==
    /\ pc = "backtest_strategy"
    /\ \E i \in DOMAIN positions :
          /\ SoldTooLate(i)
          /\ BoughtOn(positions[i].buy_date) = {i}
          /\ \E r \in RowsOf(positions[i].buy_date) :
                IsNull(portfolio_return[r].return)
    /\ \E i \in DOMAIN positions :
          /\ SoldTooLate(i)
          /\ \E j \in BoughtOn(positions[i].buy_date) :
                ~IsNull(positions[j].return)

\* C9: the output has exactly one row for each buy_date of the positions
\* and no other row, and the row's portfolio return is the arithmetic mean
\* of the returns (those that are not null) of the positions bought on that
\* date only: returns of 0.10 and 0.20 on one date give 0.15.
C9_OneRowPerBuyDateWithItsMean ==
    pc = "backtest_strategy" =>
        /\ \A i \in DOMAIN positions :
              Cardinality(RowsOf(positions[i].buy_date)) = 1
        /\ \A r \in DOMAIN portfolio_return :
              LET d == portfolio_return[r].buy_date
                  valid == {i \in BoughtOn(d) : ~IsNull(positions[i].return)}
              IN  /\ BoughtOn(d) # {}
                  /\ IsMeanOf(portfolio_return[r].return, valid)
                  /\ {positions[i].return : i \in BoughtOn(d)} = {Rat(1, 10), Rat(1, 5)}
                        /\ Cardinality(BoughtOn(d)) = 2
                        => portfolio_return[r].return = Rat(3, 20)

\* Two positions of one buy_date with returns 0.10 and 0.20 and a portfolio
\* return of 0.15, next to another buy_date whose return is different.
C9_Witness ==
    /\ pc = "backtest_strategy"
    /\ \E r, q \in DOMAIN portfolio_return :
          LET d == portfolio_return[r].buy_date
          IN  /\ Cardinality(BoughtOn(d)) = 2
              /\ {positions[i].return : i \in BoughtOn(d)} = {Rat(1, 10), Rat(1, 5)}
              /\ portfolio_return[r].return = Rat(3, 20)
              /\ q # r
              /\ portfolio_return[q].return = Rat(-1, 20)

\* The product of 1 + return over the rows idxs of the output.
RECURSIVE Compound(_)
Compound(idxs) ==
    IF idxs = {} THEN Num(1)
    ELSE LET i == CHOOSE m \in idxs : TRUE
         IN  FMul(FAdd(Num(1), portfolio_return[i].return), Compound(idxs \ {i}))

\* The output rows are in chronological buy_date order.
Chronological ==
    \A r, q \in DOMAIN portfolio_return :
        r < q => portfolio_return[r].buy_date < portfolio_return[q].buy_date

\* The portfolio returns and the cumulative returns of the output.
Returns == [r \in DOMAIN portfolio_return |-> portfolio_return[r].return]
CumReturns == [r \in DOMAIN portfolio_return |-> portfolio_return[r].cum_return]

\* C10 as stated: the output rows are in chronological buy_date order and
\* the cumulative return of the i-th row is the product of
\* 1 + portfolio_return over the rows 1..i, minus 1.
C10_Original ==
    pc = "backtest_strategy" =>
        /\ Chronological
        /\ \A r \in DOMAIN portfolio_return :
              portfolio_return[r].cum_return = FSub(Compound(1..r), Num(1))

\* C10 as amended: the output rows are in chronological buy_date order; the
\* cumulative return of the i-th row is null when the row's portfolio return
\* is null, and otherwise the product of 1 + portfolio_return over those of
\* the rows 1..i whose portfolio return is not null, minus 1; portfolio
\* returns [0.1, -0.05, 0.2] give [0.10, 0.045, 0.254].
C10_CompoundsNonNullReturns ==
    pc = "backtest_strategy" =>
        /\ Chronological
        /\ \A r \in DOMAIN portfolio_return :
              portfolio_return[r].cum_return =
                  IF IsNull(portfolio_return[r].return) THEN NaN
                  ELSE FSub(Compound({q \in 1..r : ~IsNull(portfolio_return[q].return)}),
                            Num(1))
        /\ Returns = <<Rat(1, 10), Rat(-1, 20), Rat(1, 5)>>
              => CumReturns = <<Rat(1, 10), Rat(9, 200), Rat(127, 500)>>

\* Portfolio returns [0.1, -0.05, 0.2] compounded to [0.10, 0.045, 0.254].
C10_Witness ==
    /\ pc = "backtest_strategy"
    /\ Returns = <<Rat(1, 10), Rat(-1, 20), Rat(1, 5)>>
    /\ CumReturns = <<Rat(1, 10), Rat(9, 200), Rat(127, 500)>>

\* The sessions of instrument c in the price table.
PriceSessions(c) == {r \in Range(stk_data) : r.Stkcd = c}

\* price is the close of the session s of the sessions ss that is the
\* latest (late = TRUE) or the earliest of them, and null when ss is empty.
IsCloseOf(price, ss, late) ==
    IF ss = {} THEN IsNull(price)
    ELSE \E s \in ss :
            /\ \A o \in ss : IF late THEN o.Trddt <= s.Trddt ELSE s.Trddt <= o.Trddt
            /\ price = Num(s.Clsprc)

\* C14: every position is a selected event bought on the event's date
\* (Trddt) and sold hold_period days later; buy_price is the close of the
\* latest session of the instrument at or before buy_date and sell_price
\* the close of the earliest session of the instrument at or after
\* sell_date (null when there is no such session).
C14_DatesAndPrices ==
    pc = "backtest_strategy" =>
        /\ Len(positions) = Len(selected)
        /\ \A e \in Range(selected) :
              \E p \in Range(positions) :
                  /\ p.Stkcd = e.Stkcd /\ p.Annodt = e.Annodt
                  /\ Num(p.buy_date) = e.Trddt
        /\ \A p \in Range(positions) :
              /\ \E e \in Range(selected) :
                    /\ p.Stkcd = e.Stkcd /\ p.Annodt = e.Annodt
                    /\ Num(p.buy_date) = e.Trddt
              /\ p.sell_date = p.buy_date + hold_period
              /\ IsCloseOf(p.buy_price,
                           {s \in PriceSessions(p.Stkcd) : s.Trddt <= p.buy_date}, TRUE)
              /\ IsCloseOf(p.sell_price,
                           {s \in PriceSessions(p.Stkcd) : s.Trddt >= p.sell_date}, FALSE)

\* A position bought at the close of a session before its buy_date, the
\* instrument having a later session too, and a position sold at the close
\* of a session after its sell_date, the instrument having an earlier one.
C14_Witness ==
    /\ pc = "backtest_strategy"
    /\ \E p \in Range(positions) :
          /\ ~IsNull(p.buy_price)
          /\ \A s \in PriceSessions(p.Stkcd) : s.Trddt # p.buy_date
          /\ \E s \in PriceSessions(p.Stkcd) : s.Trddt > p.buy_date
    /\ \E p \in Range(positions) :
          /\ ~IsNull(p.sell_price)
          /\ \A s \in PriceSessions(p.Stkcd) : s.Trddt # p.sell_date
          /\ \E s \in PriceSessions(p.Stkcd) : s.Trddt < p.sell_date

----------------------------------------------------------------------------
(* Claims about the whole pipeline.                                        *)

\* C11 as stated: no stage changes a table it received as input: after
\* each stage call every input table of the stage has the same rows,
\* columns and values as before the call.
C11_Original ==
    [][/\ pc' = "input" => raw_data' = raw_data
       /\ pc' = "filter_data" => stk_data' = stk_data /\ pft_data' = pft_data
       /\ pc' = "preprocess_financial_data" => fin_data' = fin_data
       /\ pc' = "strategy_consistent_growth"
             => gap_events' = gap_events /\ growth_data' = growth_data
       /\ pc' = "backtest_strategy" => selected' = selected /\ stk_data' = stk_data]_vars

====
